---- MODULE Spec2Model ----
(***************************************************************************)
(* Model of src/main.py: the CSV and DXF to GeoJSON converters             *)
(* (csv_to_geojson, dxf_to_geojson), show_map, and the PySimpleGUI event   *)
(* loop that calls them.                                                   *)
(*                                                                         *)
(* Strings that the code splits are kept as token sequences: a path is a   *)
(* sequence such as <<"a", ".csv">>, the X field of a marker row is the    *)
(* sequence of its "/"-separated segments, a DXF layer name the sequence   *)
(* of its "%%"-separated segments.  One input file lies on disk for a      *)
(* whole behaviour; the user types, toggles and clicks in any order.       *)
(***************************************************************************)
EXTENDS Integers, Sequences, FiniteSets, TLC

VARIABLES
    pc,              \* position of the program: the event loop or a statement group of a converter
    FILE,            \* window element "FILE" (a path, <<>> when empty)
    EPSG,            \* window element "_EPSG_" ("" when empty)
    CB_MAP,          \* window element "CB_MAP"
    INDICATOR,       \* window element "INDICATOR"
    disk,            \* the input file: its path and what a reader finds in it
    outFile,         \* the output file: whether it exists, its path, its document
    wrote,           \* the current (or last) Ok handler opened the output file for writing
    raised,          \* the exception last raised and the function it was raised in
    fn,              \* the converter being run ("" in the event loop)
    file_name,       \* local file_name of the converter
    df,              \* local df of csv_to_geojson: the data rows
    cad_dict,        \* local cad_dict: loop id -> planar vertex list
    trans_cad_dict,  \* local trans_cad_dict: loop id -> [lng, lat] list
    geojson,         \* geojson["features"] of the converter, a sequence of [id, ring]
    nTransformer,    \* Transformer.from_crs calls made by the current converter call
    polyIdx          \* number of polylines dxf_to_geojson has handled

vars == <<pc, FILE, EPSG, CB_MAP, INDICATOR, disk, outFile, wrote, raised, fn,
          file_name, df, cad_dict, trans_cad_dict, geojson, nTransformer, polyIdx>>

\* ------------------------------------------------------------------ bounds

\* Longest CSV modelled, counted in data rows (the lines after the first).
MaxRows == 5

\* Most POLYLINE entities in a modelled drawing.
MaxPolylines == 2

\* ------------------------------------------------------------ input values

V1 == <<1, 2>>
V2 == <<3, 4>>

\* A CSV line.  kind "marker": the X field contains "# Object:" and segs are
\* its "/"-separated parts; "vertex": numeric X and Y; "text": an X field
\* that is neither (a column title, a footer).
MarkerRow(segs) == [kind |-> "marker", segs |-> segs, x |-> 0, y |-> 0]
VertexRow(p) == [kind |-> "vertex", segs |-> <<>>, x |-> p[1], y |-> p[2]]
TextRow == [kind |-> "text", segs |-> <<>>, x |-> 0, y |-> 0]

MarkerA == MarkerRow(<<"# Object: path", "a">>)
MarkerB == MarkerRow(<<"# Object: b">>)

RowAlphabet == {MarkerA, MarkerB, VertexRow(V1), VertexRow(V2), TextRow}

\* First line of a CSV file: a column-title line, or (a file without one) a marker.
FirstLines == {TextRow, MarkerA}

SeqsUpTo(S, n) == UNION {[1..m -> S] : m \in 0..n}

CsvLineSeqs == {<<>>} \cup {<<h>> \o r : h \in FirstLines, r \in SeqsUpTo(RowAlphabet, MaxRows)}

\* A POLYLINE entity: its layer name split on "%%", and its vertices.
PolyA == [layer |-> <<"SURVEY", "LoopA">>, verts |-> <<V1, V2>>]
PolyB == [layer |-> <<"0">>, verts |-> <<V1>>]
PolyC == [layer |-> <<"S", "LoopB", "x">>, verts |-> <<V2, V1, V2>>]

PolyAlphabet == {PolyA, PolyB, PolyC}

CsvPlain == <<"a", ".csv">>
CsvInDir == <<"d", ".csv", "/", "a", ".csv">>
DxfPlain == <<"a", ".dxf">>
DxfInDir == <<"d", ".dxf", "/", "a", ".dxf">>
TxtPlain == <<"a", ".txt">>

File(path, status, ncols, lines, polylines) ==
    [path |-> path, status |-> status, ncols |-> ncols, lines |-> lines,
     polylines |-> polylines]

SampleLines == <<TextRow, MarkerA, VertexRow(V1), VertexRow(V2), TextRow>>

\* The files a behaviour may start with.  status: "ok", "ioerror" (missing,
\* unreadable, not a drawing), "corrupt" (a drawing with a broken structure).
Disks ==
    {File(CsvPlain, "ok", 6, l, <<>>) : l \in CsvLineSeqs}
    \cup {File(CsvPlain, "ok", 5, SampleLines, <<>>),
          File(CsvPlain, "ioerror", 6, <<>>, <<>>),
          File(CsvInDir, "ok", 6, SampleLines, <<>>),
          File(TxtPlain, "ok", 6, <<>>, <<>>),
          File(DxfPlain, "ioerror", 0, <<>>, <<>>),
          File(DxfPlain, "corrupt", 0, <<>>, <<>>),
          File(DxfInDir, "ok", 0, <<>>, <<PolyA>>)}
    \cup {File(DxfPlain, "ok", 0, <<>>, p) : p \in SeqsUpTo(PolyAlphabet, MaxPolylines)}

GoodEpsg == "32610"
BadEpsg == "not-a-code"
EpsgInputs == {"", GoodEpsg, BadEpsg}

\* ------------------------------------------------------------------ helpers

Last(s) == s[Len(s)]

RECURSIVE Reverse(_)
Reverse(s) == IF s = <<>> THEN <<>> ELSE Append(Reverse(Tail(s)), Head(s))

EmptyDict == [k \in {} |-> <<>>]

Put(d, k, v) == [j \in DOMAIN d \cup {k} |-> IF j = k THEN v ELSE d[j]]

NoFile == [exists |-> FALSE, path |-> <<>>, doc |-> <<>>]

NoError == [exc |-> "none", in |-> ""]

EndsWith(path, ext) == Len(path) > 0 /\ Last(path) = ext

\* Index of the first token equal to sep, 0 when there is none.
RECURSIVE FirstIndex(_, _, _)
FirstIndex(s, sep, i) ==
    IF i > Len(s) THEN 0
    ELSE IF s[i] = sep THEN i
    ELSE FirstIndex(s, sep, i + 1)

\* str.split(sep)[0]: the text before the first occurrence of sep.
SplitHead(s, sep) ==
    IF FirstIndex(s, sep, 1) = 0 THEN s ELSE SubSeq(s, 1, FirstIndex(s, sep, 1) - 1)

status == <<"", "Please select a file before converting.",
            "Please input EPSG Code before converting.", "GeoJSON file exported",
            "Map is displaying in browser window", "Incorrect File Format.">>

\* ------------------------------------------------- csv_to_geojson, pure parts

\* transformer.transform(x, y) of Transformer.from_crs(epsg, 4326): planar
\* (x, y) to (lat, lng), EPSG:4326 axis order.  A stand-in projection that
\* moves both axes, so that neither a swap nor a missing call goes unnoticed.
Transform(x, y) == <<y + 40, x - 120>>

\* The same with always_xy=True: (lng, lat).
TransformXY(x, y) == <<x - 120, y + 40>>

\* Lines 53-54: lat, lng = transformer.transform(...); append [lng, lat].
LngLat(coord) == <<Transform(coord[1], coord[2])[2], Transform(coord[1], coord[2])[1]>>

TransformList(value) == [j \in 1..Len(value) |-> LngLat(value[j])]

\* range(0, len(df) - 1): the number of rows the scan visits.
ScanCount_All(n) == n

ScanCount(n) == IF n - 1 > 0 THEN n - 1 ELSE 0

ScanStart == [err |-> "none", bound |-> FALSE, loop_id |-> "", cad |-> EmptyDict,
              feats |-> <<>>]

NewFeature(id) == [id |-> id, ring |-> <<>>]

\* A marker row whose id is already a key keeps the recorded list.
ScanRow_KeepDup(st, row, strOk) ==
    IF st.err # "none" THEN st
    ELSE IF ~strOk THEN [st EXCEPT !.err = "AttributeError"]
    ELSE IF row.kind = "marker" THEN
        [st EXCEPT !.bound = TRUE, !.loop_id = Last(row.segs),
                   !.cad = IF Last(row.segs) \in DOMAIN st.cad THEN st.cad
                           ELSE Put(st.cad, Last(row.segs), <<>>),
                   !.feats = Append(st.feats, NewFeature(Last(row.segs)))]
    ELSE IF ~st.bound THEN [st EXCEPT !.err = "UnboundLocalError"]
    ELSE IF row.kind # "vertex" THEN [st EXCEPT !.err = "ValueError"]
    ELSE [st EXCEPT !.cad[st.loop_id] = Append(@, <<row.x, row.y>>)]

\* A marker row whose id is already a key adds no second feature.
ScanRow_OneFeaturePerId(st, row, strOk) ==
    IF st.err # "none" THEN st
    ELSE IF ~strOk THEN [st EXCEPT !.err = "AttributeError"]
    ELSE IF row.kind = "marker" THEN
        [st EXCEPT !.bound = TRUE, !.loop_id = Last(row.segs),
                   !.cad = Put(st.cad, Last(row.segs), <<>>),
                   !.feats = IF Last(row.segs) \in DOMAIN st.cad THEN st.feats
                             ELSE Append(st.feats, NewFeature(Last(row.segs)))]
    ELSE IF ~st.bound THEN [st EXCEPT !.err = "UnboundLocalError"]
    ELSE IF row.kind # "vertex" THEN [st EXCEPT !.err = "ValueError"]
    ELSE [st EXCEPT !.cad[st.loop_id] = Append(@, <<row.x, row.y>>)]

\* One pass of the loop body, lines 36-47.  strOk: the row is a Series of
\* object dtype, which it is when some field of it is text; on an all-numeric
\* row .str raises.  loop_id is unbound until the first marker row.  In the
\* else branch cad_dict[loop_id] is evaluated before float(...).
ScanRow(st, row, strOk) ==
    IF st.err # "none" THEN st
    ELSE IF ~strOk THEN [st EXCEPT !.err = "AttributeError"]
    ELSE IF row.kind = "marker" THEN
        [st EXCEPT !.bound = TRUE, !.loop_id = Last(row.segs),
                   !.cad = Put(st.cad, Last(row.segs), <<>>),
                   !.feats = Append(st.feats, NewFeature(Last(row.segs)))]
    ELSE IF ~st.bound THEN [st EXCEPT !.err = "UnboundLocalError"]
    ELSE IF row.kind # "vertex" THEN [st EXCEPT !.err = "ValueError"]
    ELSE [st EXCEPT !.cad[st.loop_id] = Append(@, <<row.x, row.y>>)]

\* Column X is read as text exactly when some data row's X is not a number.
XIsText(rows) == \E j \in 1..Len(rows) : rows[j].kind # "vertex"

RECURSIVE ScanFrom(_, _, _)
ScanFrom(rows, i, st) ==
    IF i > ScanCount(Len(rows)) THEN st
    ELSE ScanFrom(rows, i + 1, ScanRow(st, rows[i], XIsText(rows)))

\* Lines 35-47, the whole loop.
Scan(rows) == ScanFrom(rows, 1, ScanStart)

\* Line 58 on one list: append its first element.
CloseRing_Last(ring) == Append(ring, Last(ring))

CloseRing(ring) == Append(ring, ring[1])

\* Line 62 on one list: [::-1].
ReverseRing_NoOp(ring) == ring

ReverseRing(ring) == Reverse(ring)

\* The statement groups of csv_to_geojson in the order the function runs them.
CsvNextStage_WriteEarly(stage) ==
    CASE stage = "csv_read" -> "csv_scan"
      [] stage = "csv_scan" -> "csv_transform"
      [] stage = "csv_transform" -> "csv_write"
      [] stage = "csv_write" -> "csv_close"
      [] stage = "csv_close" -> "csv_reverse"
      [] stage = "csv_reverse" -> "csv_fill"
      [] stage = "csv_fill" -> "returned"

CsvNextStage(stage) ==
    CASE stage = "csv_read" -> "csv_scan"
      [] stage = "csv_scan" -> "csv_transform"
      [] stage = "csv_transform" -> "csv_close"
      [] stage = "csv_close" -> "csv_reverse"
      [] stage = "csv_reverse" -> "csv_fill"
      [] stage = "csv_fill" -> "csv_write"
      [] stage = "csv_write" -> "returned"

\* ------------------------------------------------------------ the program

StatusMsg(i) == status[i + 1]

ClearLocals ==
    /\ file_name' = <<>>
    /\ df' = <<>>
    /\ cad_dict' = EmptyDict
    /\ trans_cad_dict' = EmptyDict
    /\ geojson' = <<>>
    /\ nTransformer' = 0
    /\ polyIdx' = 0

\* Lines 242-253 and 261-274: an exception e leaves function f inside the Ok
\* handler's try.  Only pyproj's CRSError is caught; sys.exit raises
\* SystemExit, which ends the process like every other exception does.
Propagate(e, f) ==
    /\ raised' = [exc |-> e, in |-> f]
    /\ ClearLocals
    /\ IF e = "CRSError"
       THEN pc' = "idle" /\ fn' = "" /\ INDICATOR' = "Invalid/Unsupported EPSG Code"
       ELSE IF e \in {"SystemExit(1)", "SystemExit(2)"}
       THEN pc' = "exited" /\ UNCHANGED <<fn, INDICATOR>>
       ELSE pc' = "crashed" /\ UNCHANGED <<fn, INDICATOR>>

Init ==
    /\ pc = "idle"
    /\ FILE = <<>>
    /\ EPSG = ""
    /\ CB_MAP = FALSE
    /\ INDICATOR = StatusMsg(0)
    /\ disk \in Disks
    /\ outFile = NoFile
    /\ wrote = FALSE
    /\ raised = NoError
    /\ fn = ""
    /\ file_name = <<>>
    /\ df = <<>>
    /\ cad_dict = EmptyDict
    /\ trans_cad_dict = EmptyDict
    /\ geojson = <<>>
    /\ nTransformer = 0
    /\ polyIdx = 0

\* ---- events that reach no branch of the loop body (lines 220-231)

\* The user browses to the file or clears the field: event "FILE".
TypeFile ==
    /\ pc = "idle"
    /\ \E f \in {<<>>, disk.path} : f # FILE /\ FILE' = f
    /\ UNCHANGED <<pc, EPSG, CB_MAP, INDICATOR, disk, outFile, wrote, raised, fn,
                   file_name, df, cad_dict, trans_cad_dict, geojson, nTransformer, polyIdx>>

\* The user edits the EPSG field: event "_EPSG_".
TypeEpsg ==
    /\ pc = "idle"
    /\ \E e \in EpsgInputs : e # EPSG /\ EPSG' = e
    /\ UNCHANGED <<pc, FILE, CB_MAP, INDICATOR, disk, outFile, wrote, raised, fn,
                   file_name, df, cad_dict, trans_cad_dict, geojson, nTransformer, polyIdx>>

\* The checkbox has no enable_events: its value is read with the next event.
ToggleMap ==
    /\ pc = "idle"
    /\ CB_MAP' = ~CB_MAP
    /\ UNCHANGED <<pc, FILE, EPSG, INDICATOR, disk, outFile, wrote, raised, fn,
                   file_name, df, cad_dict, trans_cad_dict, geojson, nTransformer, polyIdx>>

\* Lines 222-223: the window is closed; break, then window.close().
CloseWindow ==
    /\ pc = "idle"
    /\ pc' = "closed"
    /\ UNCHANGED <<FILE, EPSG, CB_MAP, INDICATOR, disk, outFile, wrote, raised, fn,
                   file_name, df, cad_dict, trans_cad_dict, geojson, nTransformer, polyIdx>>

\* Lines 224-225: raise SystemExit.
Cancel ==
    /\ pc = "idle"
    /\ pc' = "exited"
    /\ raised' = [exc |-> "SystemExit", in |-> "main"]
    /\ UNCHANGED <<FILE, EPSG, CB_MAP, INDICATOR, disk, outFile, wrote, fn,
                   file_name, df, cad_dict, trans_cad_dict, geojson, nTransformer, polyIdx>>

\* Lines 226-229.
Reset ==
    /\ pc = "idle"
    /\ FILE' = <<>>
    /\ EPSG' = ""
    /\ INDICATOR' = StatusMsg(0)
    /\ UNCHANGED <<pc, CB_MAP, disk, outFile, wrote, raised, fn,
                   file_name, df, cad_dict, trans_cad_dict, geojson, nTransformer, polyIdx>>

\* Lines 231-250 and 254-271 up to the call of a converter: the two branches
\* on CB_MAP differ only in what follows the call (OkFinish).
Ok ==
    /\ pc = "idle"
    /\ UNCHANGED <<FILE, EPSG, CB_MAP, disk, outFile,
                   file_name, df, cad_dict, trans_cad_dict, geojson, nTransformer, polyIdx>>
    /\ IF FILE = <<>>
       THEN INDICATOR' = StatusMsg(1) /\ UNCHANGED <<pc, wrote, raised, fn>>
       ELSE IF EPSG = ""
       THEN INDICATOR' = StatusMsg(2) /\ UNCHANGED <<pc, wrote, raised, fn>>
       ELSE IF EndsWith(FILE, ".csv")
       THEN /\ INDICATOR' = StatusMsg(0)
            /\ pc' = "csv_read"
            /\ fn' = "csv_to_geojson"
            /\ wrote' = FALSE
            /\ raised' = NoError
       ELSE IF EndsWith(FILE, ".dxf")
       THEN /\ INDICATOR' = StatusMsg(0)
            /\ pc' = "dxf_read"
            /\ fn' = "dxf_to_geojson"
            /\ wrote' = FALSE
            /\ raised' = NoError
       ELSE /\ INDICATOR' = StatusMsg(5)
            /\ wrote' = FALSE
            /\ raised' = NoError
            /\ UNCHANGED <<pc, fn>>

\* ---- csv_to_geojson

\* What lines 26-29 raise: read_csv on a missing or empty file, the
\* assignment of six column names to a frame of another width, from_crs on
\* an identifier pyproj cannot resolve.
CsvReadError ==
    IF disk.status # "ok" THEN "FileNotFoundError"
    ELSE IF disk.lines = <<>> THEN "EmptyDataError"
    ELSE IF disk.ncols # 6 THEN "ValueError"
    ELSE IF EPSG # GoodEpsg THEN "CRSError"
    ELSE "none"

\* Lines 26-32.  read_csv takes the first line of the file as the header, so
\* df holds the lines after it.
CsvRead ==
    /\ pc = "csv_read"
    /\ UNCHANGED <<FILE, EPSG, CB_MAP, disk, outFile, wrote>>
    /\ IF CsvReadError # "none"
       THEN Propagate(CsvReadError, "csv_to_geojson")
       ELSE /\ pc' = CsvNextStage("csv_read")
            /\ file_name' = SplitHead(FILE, ".csv")
            /\ df' = Tail(disk.lines)
            /\ nTransformer' = nTransformer + 1
            /\ cad_dict' = EmptyDict
            /\ trans_cad_dict' = EmptyDict
            /\ geojson' = <<>>
            /\ UNCHANGED <<INDICATOR, raised, fn, polyIdx>>

\* Lines 35-47.
CsvScan ==
    /\ pc = "csv_scan"
    /\ UNCHANGED <<FILE, EPSG, CB_MAP, disk, outFile, wrote>>
    /\ IF Scan(df).err # "none"
       THEN Propagate(Scan(df).err, "csv_to_geojson")
       ELSE /\ pc' = CsvNextStage("csv_scan")
            /\ cad_dict' = Scan(df).cad
            /\ geojson' = Scan(df).feats
            /\ UNCHANGED <<INDICATOR, raised, fn, file_name, df, trans_cad_dict,
                           nTransformer, polyIdx>>

\* Lines 49-54.
CsvTransform ==
    /\ pc = "csv_transform"
    /\ pc' = CsvNextStage("csv_transform")
    /\ trans_cad_dict' = [key \in DOMAIN cad_dict |-> TransformList(cad_dict[key])]
    /\ UNCHANGED <<FILE, EPSG, CB_MAP, INDICATOR, disk, outFile, wrote, raised, fn,
                   file_name, df, cad_dict, geojson, nTransformer, polyIdx>>

\* Lines 56-58: [0] of an empty list raises IndexError.
CsvClose ==
    /\ pc = "csv_close"
    /\ UNCHANGED <<FILE, EPSG, CB_MAP, disk, outFile, wrote>>
    /\ IF \E key \in DOMAIN trans_cad_dict : trans_cad_dict[key] = <<>>
       THEN Propagate("IndexError", "csv_to_geojson")
       ELSE /\ pc' = CsvNextStage("csv_close")
            /\ trans_cad_dict' =
                   [key \in DOMAIN trans_cad_dict |-> CloseRing(trans_cad_dict[key])]
            /\ UNCHANGED <<INDICATOR, raised, fn, file_name, df, cad_dict, geojson,
                           nTransformer, polyIdx>>

\* Lines 60-62.
CsvReverse ==
    /\ pc = "csv_reverse"
    /\ pc' = CsvNextStage("csv_reverse")
    /\ trans_cad_dict' =
           [key \in DOMAIN trans_cad_dict |-> ReverseRing(trans_cad_dict[key])]
    /\ UNCHANGED <<FILE, EPSG, CB_MAP, INDICATOR, disk, outFile, wrote, raised, fn,
                   file_name, df, cad_dict, geojson, nTransformer, polyIdx>>

\* Lines 64-67.
CsvFill ==
    /\ pc = "csv_fill"
    /\ pc' = CsvNextStage("csv_fill")
    /\ geojson' = [j \in 1..Len(geojson) |->
                      [geojson[j] EXCEPT !.ring = trans_cad_dict[geojson[j].id]]]
    /\ UNCHANGED <<FILE, EPSG, CB_MAP, INDICATOR, disk, outFile, wrote, raised, fn,
                   file_name, df, cad_dict, trans_cad_dict, nTransformer, polyIdx>>

\* Lines 69-73.
CsvWrite ==
    /\ pc = "csv_write"
    /\ pc' = CsvNextStage("csv_write")
    /\ outFile' = [exists |-> TRUE, path |-> file_name \o <<".json">>, doc |-> geojson]
    /\ wrote' = TRUE
    /\ UNCHANGED <<FILE, EPSG, CB_MAP, INDICATOR, disk, raised, fn,
                   file_name, df, cad_dict, trans_cad_dict, geojson, nTransformer, polyIdx>>

\* ---- dxf_to_geojson

\* Lines 80-96.  ezdxf.readfile raises IOError or DXFStructureError; each
\* handler prints a message and calls sys.exit with its own code.
DxfRead ==
    /\ pc = "dxf_read"
    /\ UNCHANGED <<FILE, EPSG, CB_MAP, disk, outFile, wrote>>
    /\ IF disk.status = "ioerror"
       THEN Propagate("SystemExit(1)", "dxf_to_geojson")
       ELSE IF disk.status = "corrupt"
       THEN Propagate("SystemExit(2)", "dxf_to_geojson")
       ELSE /\ pc' = "dxf_loop"
            /\ file_name' = SplitHead(FILE, ".dxf")
            /\ geojson' = <<>>
            /\ polyIdx' = 0
            /\ UNCHANGED <<INDICATOR, raised, fn, df, cad_dict, trans_cad_dict,
                           nTransformer>>

\* Line 103: split("%%")[1].
LayerId(layer) == layer[2]

\* Lines 106-109 and 116: the entity's vertices in its own order, each
\* through ct.transform of a transformer made with always_xy=True.
DxfGeometry(verts) == [j \in 1..Len(verts) |-> TransformXY(verts[j][1], verts[j][2])]

\* Lines 99-118, one pass of the loop body for the next POLYLINE.
DxfPolyline ==
    /\ pc = "dxf_loop"
    /\ polyIdx < Len(disk.polylines)
    /\ UNCHANGED <<FILE, EPSG, CB_MAP, disk, outFile, wrote>>
    /\ LET polyline == disk.polylines[polyIdx + 1]
       IN  IF Len(polyline.layer) < 2
           THEN Propagate("IndexError", "dxf_to_geojson")
           ELSE IF EPSG # GoodEpsg
           THEN Propagate("CRSError", "dxf_to_geojson")
           ELSE /\ nTransformer' = nTransformer + 1
                /\ geojson' = Append(geojson, [id |-> LayerId(polyline.layer),
                                               ring |-> DxfGeometry(polyline.verts)])
                /\ polyIdx' = polyIdx + 1
                /\ UNCHANGED <<pc, INDICATOR, raised, fn, file_name, df, cad_dict,
                               trans_cad_dict>>

\* Lines 120-124, reached when the loop has run out of polylines.
DxfWrite ==
    /\ pc = "dxf_loop"
    /\ polyIdx = Len(disk.polylines)
    /\ pc' = "returned"
    /\ outFile' = [exists |-> TRUE, path |-> file_name \o <<".json">>, doc |-> geojson]
    /\ wrote' = TRUE
    /\ UNCHANGED <<FILE, EPSG, CB_MAP, INDICATOR, disk, raised, fn,
                   file_name, df, cad_dict, trans_cad_dict, geojson, nTransformer, polyIdx>>

\* ---- after the converter has returned

\* Line 132 of show_map: geojson["features"][0]["geometry"]["coordinates"][0][0].
ShowMapError ==
    IF geojson = <<>> THEN "IndexError"
    ELSE IF geojson[1].ring = <<>> THEN "IndexError"
    ELSE "none"

\* Lines 245, 248 (CB_MAP off) and 264-265, 268-269 (CB_MAP on): the rest of
\* the Ok handler, show_map (lines 130-163) included.
OkFinish ==
    /\ pc = "returned"
    /\ UNCHANGED <<FILE, EPSG, CB_MAP, disk, outFile, wrote>>
    /\ IF CB_MAP /\ ShowMapError # "none"
       THEN Propagate(ShowMapError, "show_map")
       ELSE /\ pc' = "idle"
            /\ fn' = ""
            /\ INDICATOR' = IF CB_MAP THEN StatusMsg(4) ELSE StatusMsg(3)
            /\ ClearLocals
            /\ UNCHANGED raised

Next ==
    \/ TypeFile
    \/ TypeEpsg
    \/ ToggleMap
    \/ CloseWindow
    \/ Cancel
    \/ Reset
    \/ Ok
    \/ CsvRead
    \/ CsvScan
    \/ CsvTransform
    \/ CsvClose
    \/ CsvReverse
    \/ CsvFill
    \/ CsvWrite
    \/ DxfRead
    \/ DxfPolyline
    \/ DxfWrite
    \/ OkFinish

Spec == Init /\ [][Next]_vars

\* One call of a converter, as the Ok handler makes it in a fresh process:
\* both fields filled in, the converter chosen by the extension of the path.
InitCall ==
    /\ disk \in Disks
    /\ EndsWith(disk.path, ".csv") \/ EndsWith(disk.path, ".dxf")
    /\ pc = IF EndsWith(disk.path, ".csv") THEN "csv_read" ELSE "dxf_read"
    /\ fn = IF EndsWith(disk.path, ".csv") THEN "csv_to_geojson" ELSE "dxf_to_geojson"
    /\ FILE = disk.path
    /\ EPSG \in {GoodEpsg, BadEpsg}
    /\ CB_MAP = FALSE
    /\ INDICATOR = StatusMsg(0)
    /\ outFile = NoFile
    /\ wrote = FALSE
    /\ raised = NoError
    /\ file_name = <<>>
    /\ df = <<>>
    /\ cad_dict = EmptyDict
    /\ trans_cad_dict = EmptyDict
    /\ geojson = <<>>
    /\ nTransformer = 0
    /\ polyIdx = 0

NextCall ==
    \/ CsvRead
    \/ CsvScan
    \/ CsvTransform
    \/ CsvClose
    \/ CsvReverse
    \/ CsvFill
    \/ CsvWrite
    \/ DxfRead
    \/ DxfPolyline
    \/ DxfWrite

SpecCall == InitCall /\ [][NextCall]_vars

\* ------------------------------------------------------------------ claims

Converters == {"csv_to_geojson", "dxf_to_geojson"}

\* The lines of the CSV file after its first line, and those the scan visits.
DataRows == IF disk.lines = <<>> THEN <<>> ELSE Tail(disk.lines)

Scanned == IF DataRows = <<>> THEN <<>> ELSE SubSeq(DataRows, 1, Len(DataRows) - 1)

IsMarker(row) == row.kind = "marker"

IsVertex(row) == row.kind = "vertex"

MarkerId(row) == row.segs[Len(row.segs)]

Readable == disk.status = "ok" /\ disk.ncols = 6 /\ disk.lines # <<>>

\* A well-formed CSV: a column-title line, then loops, each a marker row
\* followed by at least one vertex row, every coordinate a number.
ValidCsv ==
    /\ Readable
    /\ ~IsMarker(disk.lines[1])
    /\ DataRows # <<>>
    /\ IsMarker(DataRows[1])
    /\ \A j \in 1..Len(DataRows) :
        /\ IsMarker(DataRows[j]) \/ IsVertex(DataRows[j])
        /\ IsMarker(DataRows[j]) => j < Len(DataRows) /\ IsVertex(DataRows[j + 1])

MarkerCount == Cardinality({j \in 1..Len(disk.lines) : IsMarker(disk.lines[j])})

RingClosed(ring) == ring # <<>> /\ ring[1] = ring[Len(ring)]

\* C2: every ring of a collection csv_to_geojson returns or writes is
\* closed: its first point equals its last.
C2_RingsClosed ==
    fn = "csv_to_geojson" =>
        /\ pc = "returned" => \A j \in 1..Len(geojson) : RingClosed(geojson[j].ring)
        /\ outFile.exists => \A j \in 1..Len(outFile.doc) : RingClosed(outFile.doc[j].ring)

C2_Witness ==
    /\ fn = "csv_to_geojson" /\ pc = "returned" /\ outFile.exists
    /\ \E j \in 1..Len(outFile.doc) :
        /\ Len(outFile.doc[j].ring) >= 3
        /\ outFile.doc[j].ring[2] # outFile.doc[j].ring[Len(outFile.doc[j].ring) - 1]

\* C3: the ring emitted for a loop recorded as v1..vk is T(v1), T(vk),
\* T(vk-1), ..., T(v1): k+1 points, the closed list in reverse.
C3_RingIsReversedClosedLoop ==
    (fn = "csv_to_geojson" /\ pc = "returned") =>
        \A j \in 1..Len(geojson) :
            LET v == cad_dict[geojson[j].id]
                ring == geojson[j].ring
                k == Len(v)
            IN  /\ k >= 1
                /\ Len(ring) = k + 1
                /\ ring[1] = LngLat(v[1])
                /\ \A i \in 1..k : ring[i + 1] = LngLat(v[k + 1 - i])

C3_Witness ==
    /\ fn = "csv_to_geojson" /\ pc = "returned"
    /\ \E j \in 1..Len(geojson) :
        /\ Len(cad_dict[geojson[j].id]) >= 3
        /\ cad_dict[geojson[j].id][1] # cad_dict[geojson[j].id][2]

\* The input of C4: after the first line, one marker row "# Object:
\* <path>/<name>" and then nothing but vertex rows, at least one.
SingleLoopCsv ==
    /\ Readable
    /\ Len(DataRows) >= 2
    /\ IsMarker(DataRows[1]) /\ Len(DataRows[1].segs) >= 2
    /\ \A j \in 2..Len(DataRows) : IsVertex(DataRows[j])

VertexRows == Len(DataRows) - 1

\* C4 as stated: one marker row and k >= 1 vertex rows give one feature,
\* named after the text behind the last "/", with a ring of k+1 points.
C4_AsStated ==
    (fn = "csv_to_geojson" /\ pc = "returned" /\ SingleLoopCsv) =>
        /\ Len(geojson) = 1
        /\ geojson[1].id = MarkerId(DataRows[1])
        /\ Len(geojson[1].ring) = VertexRows + 1

\* C4 amended: the last row is never scanned, so k >= 2 vertex rows give one
\* feature whose ring has k points (the first k-1 vertices and the closing
\* duplicate), and with k = 1 the call ends in IndexError instead of returning.
C4_RingOfAllButLastRow ==
    (fn = "csv_to_geojson" /\ SingleLoopCsv) =>
        /\ pc = "returned" =>
            /\ VertexRows >= 2
            /\ Len(geojson) = 1
            /\ geojson[1].id = MarkerId(DataRows[1])
            /\ Len(geojson[1].ring) = VertexRows
            /\ \A i \in 1..(VertexRows - 1) :
                geojson[1].ring[VertexRows + 1 - i] =
                    LngLat(<<DataRows[i + 1].x, DataRows[i + 1].y>>)
        /\ pc = "crashed" => VertexRows = 1 /\ raised.exc = "IndexError"

C4_Witness ==
    /\ fn = "csv_to_geojson" /\ pc = "returned" /\ SingleLoopCsv
    /\ VertexRows = 3
    /\ geojson[1].id = "a"
    /\ Len(geojson[1].ring) = 3

\* C5: a converter call that ended in an error has not opened the output
\* file; it exists only after every earlier step went through.
C5_NoFileOnFailure ==
    raised.in \in Converters => ~wrote /\ ~outFile.exists

C5_Witness ==
    /\ raised = [exc |-> "IndexError", in |-> "csv_to_geojson"]
    /\ pc = "crashed"
    /\ Len(Scanned) >= 3

\* C6 as stated: a call given a CRS identifier that cannot be resolved never
\* returns a collection and never writes the output file.
C6_InvalidCrsWritesNothing ==
    (fn \in Converters /\ EPSG = BadEpsg) => pc # "returned" /\ ~wrote

\* C7 as stated: the event loop survives every error of a conversion.
C7_ShellSurvivesConversionError ==
    raised.in \in Converters => pc \notin {"crashed", "exited"}

\* C8 as stated: a converter call builds its transformer exactly once.
C8_TransformerBuiltOnce ==
    fn \in Converters => nTransformer <= 1 /\ (pc = "returned" => nTransformer = 1)

\* C9 as stated: the output path is the input path with only its final
\* extension replaced by ".json".
C9_OutputPathReplacesFinalExtension ==
    outFile.exists =>
        outFile.path = SubSeq(disk.path, 1, Len(disk.path) - 1) \o <<".json">>

\* Of the scanned rows, the last marker row that names id.
LastMarkerOf(id) ==
    CHOOSE j \in 1..Len(Scanned) :
        /\ IsMarker(Scanned[j]) /\ MarkerId(Scanned[j]) = id
        /\ \A m \in (j + 1)..Len(Scanned) :
            ~(IsMarker(Scanned[m]) /\ MarkerId(Scanned[m]) = id)

\* The row after the run of vertex rows that follows row j.
RunEnd(j) ==
    CHOOSE e \in (j + 1)..(Len(Scanned) + 1) :
        /\ e = Len(Scanned) + 1 \/ IsMarker(Scanned[e])
        /\ \A m \in (j + 1)..(e - 1) : ~IsMarker(Scanned[m])

RunAfter(j) == [i \in 1..(RunEnd(j) - j - 1) |-> <<Scanned[j + i].x, Scanned[j + i].y>>]

DuplicateIds ==
    \E i, j \in 1..Len(Scanned) :
        /\ i < j
        /\ IsMarker(Scanned[i]) /\ IsMarker(Scanned[j])
        /\ MarkerId(Scanned[i]) = MarkerId(Scanned[j])

CleanScan ==
    /\ Readable
    /\ Scanned # <<>>
    /\ IsMarker(Scanned[1])
    /\ \A j \in 1..Len(Scanned) : IsMarker(Scanned[j]) \/ IsVertex(Scanned[j])

====
